---- MODULE Spec2Model ----
(***************************************************************************)
(* State-machine model of the bounded website crawler of                   *)
(* src/backend/scraping.py (scrape_website and the URL helpers it uses).   *)
(*                                                                         *)
(* Strings are sequences of tokens.  A token is either a delimiter the     *)
(* code inspects ("/", "?", "#", " "), a scheme prefix ("https://",       *)
(* "http://"), a host name or a path word.  urlparse, urljoin, rstrip,     *)
(* strip and split act on these sequences as the Python functions act on   *)
(* the characters.                                                         *)
(***************************************************************************)
EXTENDS Integers, Sequences, FiniteSets, TLC

(***************************************************************************)
(* Bounds of the model.                                                    *)
(***************************************************************************)
MaxHrefLen == 4
MaxDedupLen == 3
MaxBudget == 4
MaxAnchors == 2

MaxContentLen == 2

MaxSourceBudget == 3

MaxTitleLen == 3

MaxAnswers == 4

MaxSegments == 2

(***************************************************************************)
(* Generic sequence helpers (Python str / list primitives).                *)
(***************************************************************************)
Range(s) == {s[i] : i \in 1..Len(s)}

Take(s, n) == SubSeq(s, 1, IF n < Len(s) THEN n ELSE Len(s))

Drop(s, n) == SubSeq(s, n + 1, Len(s))

\* index of the first token of s that lies in stops, Len(s)+1 when none
FirstIn(s, stops) ==
    IF \E i \in 1..Len(s) : s[i] \in stops
    THEN CHOOSE i \in 1..Len(s) : s[i] \in stops /\ \A j \in 1..(i - 1) : s[j] \notin stops
    ELSE Len(s) + 1

\* str.rstrip(c)
RECURSIVE RStrip(_, _)
RStrip(s, c) ==
    IF s # <<>> /\ s[Len(s)] = c THEN RStrip(SubSeq(s, 1, Len(s) - 1), c) ELSE s

\* str.lstrip(c)
RECURSIVE LStrip(_, _)
LStrip(s, c) ==
    IF s # <<>> /\ s[1] = c THEN LStrip(Tail(s), c) ELSE s

\* str.strip(): leading and trailing white space
Strip(s) == RStrip(LStrip(s, " "), " ")

\* s up to, and s behind, the first token of s that lies in stops
Before(s, stops) == SubSeq(s, 1, FirstIn(s, stops) - 1)

After(s, stops) == Drop(s, FirstIn(s, stops))

\* url.split('#')[0]
BeforeHash(s) == Before(s, {"#"})

(***************************************************************************)
(* urllib.parse                                                            *)
(***************************************************************************)
SchemeToks == {"http://", "https://"}

\* urlsplit behind the network location: the fragment goes first, then the query
UrlParts(scheme, netloc, rest) ==
    [scheme   |-> scheme,
     netloc   |-> netloc,
     path     |-> Before(Before(rest, {"#"}), {"?"}),
     query    |-> After(Before(rest, {"#"}), {"?"}),
     fragment |-> After(rest, {"#"})]

\* urlsplit behind the scheme: a network location only after '//', and it
\* ends in front of the first '/', '?' or '#'
UrlSplit(scheme, hasNet, afterSch) ==
    UrlParts(scheme,
             IF hasNet THEN Before(afterSch, {"/", "?", "#"}) ELSE <<>>,
             IF hasNet THEN Drop(afterSch, FirstIn(afterSch, {"/", "?", "#"}) - 1) ELSE afterSch)

\* urlparse(s): scheme, netloc, path, query, fragment of a token string
urlparse(s) ==
    LET hasScheme == s # <<>> /\ s[1] \in SchemeToks
        slashNet  == Len(s) >= 2 /\ s[1] = "/" /\ s[2] = "/"
    IN  UrlSplit(IF hasScheme THEN s[1] ELSE "",
                 hasScheme \/ slashNet,
                 IF hasScheme THEN Tail(s) ELSE IF slashNet THEN Drop(s, 2) ELSE s)

\* urljoin keeps '' out of the middle segments of a relative path
RECURSIVE CollapseSlashes(_)
CollapseSlashes(p) ==
    IF Len(p) < 2 THEN p
    ELSE IF p[1] = "/" /\ p[2] = "/" THEN CollapseSlashes(Tail(p))
    ELSE <<p[1]>> \o CollapseSlashes(Tail(p))

\* urlunparse drops an empty query
WithQuery(q) == IF q = <<>> THEN <<>> ELSE <<"?">> \o q

\* urljoin(base, url) for a base of the form scheme://netloc and a url that
\* does not start with a scheme
urljoin(base, url) ==
    LET join(b, u) ==
            IF url = <<>> THEN base
            ELSE IF u.netloc # <<>> THEN <<b.scheme>> \o u.netloc \o u.path \o WithQuery(u.query)
            ELSE IF u.path = <<>> THEN <<b.scheme>> \o b.netloc \o WithQuery(u.query)
            ELSE IF u.path[1] = "/" THEN <<b.scheme>> \o b.netloc \o u.path \o WithQuery(u.query)
            ELSE <<b.scheme>> \o b.netloc \o <<"/">> \o CollapseSlashes(u.path) \o WithQuery(u.query)
    IN  join(urlparse(base), urlparse(url))

(***************************************************************************)
(* normalize_url, urls_are_equivalent, deduplicate_urls, is_same_domain    *)
(***************************************************************************)
normalize_url(url, base_url) ==
    LET \* url.split('#')[0].strip(), made absolute
        absolute(u) ==
            IF u # <<>> /\ u[1] = "/" THEN urljoin(base_url, u)
            ELSE IF ~(u # <<>> /\ u[1] \in SchemeToks) THEN urljoin(base_url, u)
            ELSE u
        \* the trailing slashes go unless the path is the root
        stripped(normalized, path) ==
            IF path # <<>> /\ path # <<"/">> /\ path[Len(path)] = "/"
            THEN RStrip(normalized, "/")
            ELSE normalized
        parsed(normalized) == stripped(normalized, urlparse(normalized).path)
    IN  IF url = <<>> THEN <<>> ELSE parsed(absolute(Strip(BeforeHash(url))))

urls_are_equivalent(url1, url2) ==
    LET same(parsed1, parsed2) ==
            /\ parsed1.netloc = parsed2.netloc
            /\ RStrip(parsed1.path, "/") = RStrip(parsed2.path, "/")
    IN  same(urlparse(RStrip(url1, "/")), urlparse(RStrip(url2, "/")))

\* canonical with the query left in the key
canonical_WithQuery(url) ==
    LET key(parsed) == parsed.netloc \o RStrip(parsed.path, "/") \o WithQuery(parsed.query)
    IN  key(urlparse(RStrip(url, "/")))

\* the canonical key deduplicate_urls compares: netloc followed by the path
canonical(url) ==
    LET key(parsed) == parsed.netloc \o RStrip(parsed.path, "/")
    IN  key(urlparse(RStrip(url, "/")))

clean_url(url) ==
    LET clean(parsed) == <<parsed.scheme>> \o parsed.netloc \o RStrip(parsed.path, "/")
    IN  clean(urlparse(RStrip(url, "/")))

RECURSIVE DedupFrom(_, _, _)
DedupFrom(urls_with_context, seen_urls, deduplicated) ==
    IF urls_with_context = <<>> THEN deduplicated
    ELSE LET url == urls_with_context[1][1]
             context == urls_with_context[1][2]
             add(key) ==
                 IF key \notin seen_urls
                 THEN DedupFrom(Tail(urls_with_context), seen_urls \cup {key},
                                Append(deduplicated, <<clean_url(url), context>>))
                 ELSE DedupFrom(Tail(urls_with_context), seen_urls, deduplicated)
         IN  add(canonical(url))

deduplicate_urls(urls_with_context) == DedupFrom(urls_with_context, {}, <<>>)

is_same_domain(url1, url2) == urlparse(url1).netloc = urlparse(url2).netloc

(***************************************************************************)
(* SmartPageClassifier: the keyword tables restricted to the path words    *)
(* and link texts that occur in the model.  A path word is listed under a  *)
(* label when "/" followed by the word matches one of the label's          *)
(* url_patterns; a text token is listed when its lower case contains one   *)
(* of the label's link_text keywords.                                      *)
(***************************************************************************)
\* iteration order of the page_keywords dict
PageTypes == <<"about", "products", "team", "contact", "news", "careers">>

UrlWords(page_type) ==
    CASE page_type = "about"    -> {"about", "who-we-are", "about-us", "about-company", "our-story", "company"}
      [] page_type = "products" -> {"products", "product", "solutions", "services", "platform", "features"}
      [] page_type = "team"     -> {"team", "who-we-are", "our-team", "leadership", "founders", "people", "management"}
      [] page_type = "contact"  -> {"contact", "contact-us", "get-in-touch", "reach-us", "support"}
      [] page_type = "news"     -> {"news", "blog", "press", "media", "updates", "insights", "resources"}
      [] page_type = "careers"  -> {"careers", "jobs", "join-us", "work-with-us", "opportunities"}

LinkTexts(page_type) ==
    CASE page_type = "about"    -> {"About", "Company", "Story", "Mission", "about", "about-us",
                                    "about-company", "our-story", "company"}
      [] page_type = "products" -> {"products", "product", "solutions", "services", "platform", "features"}
      [] page_type = "team"     -> {"Team", "Board", "Leadership", "team", "our-team", "leadership", "founders",
                                    "people", "management"}
      [] page_type = "contact"  -> {"Contact", "contact", "contact-us", "support"}
      [] page_type = "news"     -> {"Press", "news", "blog", "press", "media", "updates", "insights",
                                    "resources", "(discovered from content)"}
      [] page_type = "careers"  -> {"Careers", "Jobs", "careers", "jobs", "opportunities"}

\* re.search(pattern, url_lower) for some url pattern of the label
UrlMatches(page_type, url) ==
    \E i \in 1..(Len(url) - 1) : url[i] = "/" /\ url[i + 1] \in UrlWords(page_type)

\* some link_text keyword of the label is a substring of the link text
TextMatches(page_type, link_text) ==
    \E i \in 1..Len(link_text) : link_text[i] \in LinkTexts(page_type)

\* content indicators are only looked at when content is given; the crawl
\* never passes content
ContentMatches(page_type, content) == content # <<>> /\ page_type \in Range(content)

\* Score with the content indicators weighing as much as the link text
Score_ContentWeighsTwo(page_type, url, link_text, content) ==
      (IF UrlMatches(page_type, url) THEN 4 ELSE 0)
    + (IF TextMatches(page_type, link_text) THEN 2 ELSE 0)
    + (IF ContentMatches(page_type, content) THEN 2 ELSE 0)

Score(page_type, url, link_text, content) ==
      (IF UrlMatches(page_type, url) THEN 4 ELSE 0)
    + (IF TextMatches(page_type, link_text) THEN 2 ELSE 0)
    + (IF ContentMatches(page_type, content) THEN 1 ELSE 0)

\* the list of labels, in page_keywords order
classify_page(url, link_text, content) ==
    SelectSeq(PageTypes, LAMBDA t : Score(t, url, link_text, content) >= 2)

(***************************************************************************)
(* should_skip_url: no host or path word of the model contains one of the  *)
(* skip extensions, skip paths or skip domains except the ones listed.     *)
(***************************************************************************)
\* acme.js.org contains the extension .js
SkipTokens == {"login", "file.pdf", "github.com", "acme.js.org"}

should_skip_url(url) == \E i \in 1..Len(url) : url[i] \in SkipTokens

(***************************************************************************)
(* extract_links_with_context.  A parsed page (soup) is a record of its    *)
(* anchors, its data-href elements, the texts of the children of its       *)
(* navigation containers and its remaining visible text.                   *)
(***************************************************************************)
\* common_pages, flattened in iteration order
Variations ==
    <<"about", "about-us", "about-company", "our-story", "company", "who-we-are",
      "products", "product", "solutions", "services", "platform", "features",
      "team", "our-team", "leadership", "founders", "people", "management",
      "contact", "contact-us", "get-in-touch", "reach-us", "support",
      "news", "blog", "press", "media", "updates", "insights", "resources",
      "careers", "jobs", "join-us", "work-with-us", "opportunities">>

\* the variations that are substrings of the lower-cased text token
TextWords(text) ==
    CASE text = "About"    -> {"about"}
      [] text = "Team"     -> {"team"}
      [] text = "Contact"  -> {"contact"}
      [] text = "Careers"  -> {"careers"}
      [] text = "Company"  -> {"company"}
      [] text = "Jobs"     -> {"jobs"}
      [] text = "Press"    -> {"press"}
      [] text = "Leadership" -> {"leadership"}
      [] OTHER             -> {}

\* link texts the anchor loop refuses: shorter than 2 characters or generic
GenericTexts == {"", "x", "home", "here", "click", "more"}

SkippedSchemes == {"mailto:", "tel:", "javascript:"}

\* urlparse raises ValueError on a bracketed host that is no IPv6 literal
MalformedHosts == {"[bad"}

UrlparseRaises(url) == \E i \in 1..Len(url) : url[i] \in MalformedHosts

\* 'www.' + domain, or the domain without its leading 'www.'
WwwVariant(domain) ==
    IF domain = <<"www.acme.io">> THEN <<"acme.io">>
    ELSE IF domain = <<"acme.io">> THEN <<"www.acme.io">>
    ELSE <<"www.">> \o domain

\* soup.get_text().lower(): every variation that occurs in the visible text
PageWords(soup) ==
    UNION ({TextWords(soup.anchors[i].text) : i \in 1..Len(soup.anchors)}
           \cup {TextWords(soup.data[i].text) : i \in 1..Len(soup.data)}
           \cup {TextWords(soup.nav[i]) : i \in 1..Len(soup.nav)}
           \cup {TextWords(soup.body[i]) : i \in 1..Len(soup.body)})

\* Method 1: <a href> tags.  acc = [links, seen]
RECURSIVE AnchorLinks(_, _, _)
AnchorLinks(anchors, base_url, acc) ==
    IF anchors = <<>> THEN acc
    ELSE LET link == anchors[1]
             base_domain == RStrip(base_url, "/")
             rest == Tail(anchors)
             visit(href, normalized_url) ==
                 IF href = <<>> \/ href[1] \in SkippedSchemes
                     THEN AnchorLinks(rest, base_url, acc)
                 ELSE IF normalized_url = <<>> \/ should_skip_url(normalized_url)
                     THEN AnchorLinks(rest, base_url, acc)
                 ELSE IF normalized_url \in acc.seen
                     THEN AnchorLinks(rest, base_url, acc)
                 ELSE IF normalized_url \in {base_domain, base_domain \o <<"/">>,
                                             base_domain \o <<"/", "index.html">>,
                                             base_domain \o <<"/", "home">>}
                     THEN AnchorLinks(rest, base_url, acc)
                 ELSE IF link.text \in GenericTexts
                     THEN AnchorLinks(rest, base_url, [acc EXCEPT !.seen = @ \cup {normalized_url}])
                 ELSE AnchorLinks(rest, base_url,
                         [links |-> Append(acc.links, <<normalized_url, <<link.text, " ", link.parent>> >>),
                          seen  |-> acc.seen \cup {normalized_url}])
         IN  visit(Strip(link.href), normalize_url(Strip(link.href), base_url))

\* Method 2: elements with a data-href attribute
RECURSIVE DataHrefLinks(_, _, _)
DataHrefLinks(elements, base_url, acc) ==
    IF elements = <<>> THEN acc
    ELSE LET rest == Tail(elements)
             visit(href, normalized_url) ==
                 IF href # <<>> /\ normalized_url # <<>> /\ ~should_skip_url(normalized_url)
                    /\ normalized_url \notin acc.seen
                 THEN DataHrefLinks(rest, base_url,
                         [links |-> Append(acc.links, <<normalized_url, <<elements[1].text>> >>),
                          seen  |-> acc.seen \cup {normalized_url}])
                 ELSE DataHrefLinks(rest, base_url, acc)
         IN  visit(Strip(elements[1].href), normalize_url(Strip(elements[1].href), base_url))

potential_urls(base_url, variation) ==
    LET urls(domain) ==
            << base_url \o <<"/", variation>>,
               base_url \o <<"/", variation, "/">>,
               <<"https://">> \o domain \o <<"/", variation>>,
               <<"https://">> \o WwwVariant(domain) \o <<"/", variation>> >>
    IN  urls(urlparse(base_url).netloc)

\* Method 4: a variation that occurs in the page text adds the first of its
\* potential URLs that is neither seen nor skipped
RECURSIVE GuessedLinks(_, _, _, _)
GuessedLinks(variations, words, base_url, acc) ==
    IF variations = <<>> THEN acc
    ELSE LET variation == variations[1]
             guess(cands) ==
                 IF variation \in words /\ cands # <<>>
                 THEN GuessedLinks(Tail(variations), words, base_url,
                         [links |-> Append(acc.links,
                                           <<cands[1], <<variation, " ", "(discovered from content)">> >>),
                          seen  |-> acc.seen \cup {cands[1]}])
                 ELSE GuessedLinks(Tail(variations), words, base_url, acc)
         IN  guess(SelectSeq(potential_urls(base_url, variation),
                             LAMBDA u : u \notin acc.seen /\ ~should_skip_url(u)))

\* Method 5: children of navigation containers whose text is a variation
RECURSIVE NavLinks(_, _, _)
NavLinks(texts, base_url, acc) ==
    IF texts = <<>> THEN acc
    ELSE LET text == texts[1]
             potential_url == base_url \o <<"/", text>>
         IN  IF text \in Range(Variations) /\ potential_url \notin acc.seen
                /\ ~should_skip_url(potential_url)
             THEN NavLinks(Tail(texts), base_url,
                     [links |-> Append(acc.links, <<potential_url, <<text, " ", "(from navigation)">> >>),
                      seen  |-> acc.seen \cup {potential_url}])
             ELSE NavLinks(Tail(texts), base_url, acc)

extract_links_with_context(soup, base_url) ==
    NavLinks(soup.nav, base_url,
        GuessedLinks(Variations, PageWords(soup), base_url,
            DataHrefLinks(soup.data, base_url,
                AnchorLinks(soup.anchors, base_url, [links |-> <<>>, seen |-> {}])))).links

\* normalize_url lets the ValueError of urlparse escape
ExtractLinksRaises(soup) ==
    \/ \E i \in 1..Len(soup.anchors) :
          /\ Strip(soup.anchors[i].href) # <<>>
          /\ Strip(soup.anchors[i].href)[1] \notin SkippedSchemes
          /\ UrlparseRaises(soup.anchors[i].href)
    \/ \E i \in 1..Len(soup.data) : UrlparseRaises(soup.data[i].href)

\* remove_noise_elements decomposes script, style, meta and link tags and
\* nav, header, footer, ... in place: the meta tags, the anchors and
\* paragraphs inside a noise element and every navigation container are gone
\* afterwards, wherever in the document they stand
remove_noise_elements(soup) ==
    [anchors    |-> SelectSeq(soup.anchors, LAMBDA a : ~a.noise),
     data       |-> soup.data,
     nav        |-> <<>>,
     body       |-> soup.body,
     meta       |-> <<>>,
     paragraphs |-> SelectSeq(soup.paragraphs, LAMBDA e : ~e.noise)]

(***************************************************************************)
(* extract_company_name. A text is the sequence of its words, joined by    *)
(* single blanks; a title separator is a word of its own.                  *)
(***************************************************************************)
marketing_keywords ==
    {"get", "start", "try", "buy", "learn", "discover", "create", "build",
     "best", "top", "leading", "ultimate", "perfect", "easy", "simple",
     "that", "which", "for your", "solution", "platform", "software"}

\* the marketing keywords that are substrings of the lower-cased word
KeywordsOf(word) ==
    CASE word = "Best"     -> {"best"}
      [] word = "Platform" -> {"platform"}
      [] word = "For Your" -> {"for your"}
      [] OTHER             -> {}

\* len(word)
WordLen(word) ==
    CASE word \in {"|", "-"}                       -> 1
      [] word = "AI"                               -> 2
      [] word \in {"Acme", "Best"}                 -> 4
      [] word \in {"Platform", "For Your", "Business"} -> 8
      [] word = "Long28"                           -> 28
      [] OTHER                                     -> 3

RECURSIVE SumLen(_)
SumLen(text) == IF text = <<>> THEN 0 ELSE WordLen(text[1]) + SumLen(Tail(text))

\* len(text)
TextLen(text) == IF text = <<>> THEN 0 ELSE SumLen(text) + Len(text) - 1

\* looks_like_marketing with the length test only
looks_like_marketing_LengthOnly(text) == text = <<>> \/ TextLen(text) > 60

\* looks_like_marketing(text)
looks_like_marketing(text) ==
    \/ text = <<>>
    \/ TextLen(text) > 60
    \/ Cardinality(marketing_keywords \cap UNION {KeywordsOf(text[i]) : i \in 1..Len(text)}) >= 2

\* [part.strip() for part in text.split(separator)]
RECURSIVE SplitOn(_, _)
SplitOn(text, separator) ==
    IF separator \notin Range(text) THEN <<text>>
    ELSE <<Before(text, {separator})>> \o SplitOn(After(text, {separator}), separator)

\* the en dash and the bullet are named
Separators == <<"|", "-", "en-dash", ":", "bullet">>

\* the parts of the title at the first separator of the list it contains
TitleParts(title) ==
    LET present == SelectSeq(Separators, LAMBDA sep : sep \in Range(title))
    IN  IF present = <<>> THEN <<>> ELSE SplitOn(title, present[1])

\* the candidates the page title gives
TitleCandidates(soup) ==
    IF ~soup.title.present THEN <<>>
    ELSE LET from_parts == SelectSeq(TitleParts(soup.title.text),
                                     LAMBDA part : part # <<>> /\ ~looks_like_marketing(part))
         IN  IF from_parts = <<>> /\ ~looks_like_marketing(soup.title.text)
             THEN <<soup.title.text>>
             ELSE from_parts

\* the candidate og:site_name gives
SiteNameCandidates(soup) ==
    IF soup.og_site_name.present /\ soup.og_site_name.content # <<>>
          /\ ~looks_like_marketing(soup.og_site_name.content)
    THEN <<soup.og_site_name.content>>
    ELSE <<>>

\* word.capitalize()
Capitalize(word) ==
    CASE word \in {"acme", "ACME"} -> "Acme"
      [] word = "my"               -> "My"
      [] word = "co"               -> "Co"
      [] word = "labs"             -> "Labs"
      [] OTHER                     -> word

\* extract_from_domain(url)
extract_from_domain(url) ==
    LET netloc == urlparse(url).netloc
        domain == IF Len(netloc) >= 2 /\ netloc[1] = "www" /\ netloc[2] = "." THEN Drop(netloc, 2) ELSE netloc
        domain_name == Before(domain, {"."})
        words == SelectSeq(domain_name, LAMBDA w : w \notin {"-", "_"})
    IN  [i \in 1..Len(words) |-> Capitalize(words[i])]

\* extract_company_name(soup, url)
extract_company_name(soup, url) ==
    LET candidates == TitleCandidates(soup) \o SiteNameCandidates(soup)
    IN  IF candidates # <<>> THEN candidates[1] ELSE extract_from_domain(url)

(***************************************************************************)
(* Inputs of a crawl: the seed URL, the page budget, the seed page the     *)
(* server answers with and the server's answers to later requests.         *)
(***************************************************************************)
Seeds == { <<"https://", "acme.io">>, <<"https://", "acme.io", "/">>, <<"acme.io">> }

\* SeedRequest: pageBudget >= 1
Budgets == 1..MaxBudget

\* an <a> element; noise: it is, or lies inside, an element the noise filter
\* matches; content: it lies inside an element a content selector matches
Anchor(href, text, noise) ==
    [href |-> href, text |-> text, parent |-> text, noise |-> noise, content |-> FALSE]

\* the anchors a seed page is built from, in document order
AnchorPool ==
    << Anchor(<<"/", "about">>, "About", FALSE),
       Anchor(<<"/", "team">>, "Team", FALSE),
       Anchor(<<"/", "contact", "/", "?", "q">>, "Contact", FALSE),
       Anchor(<<"/", "careers">>, "Careers", FALSE),
       Anchor(<<"/", "who-we-are">>, "Company", FALSE),
       Anchor(<<"/", "?", "q">>, "Story", FALSE),
       Anchor(<<"/", "about", "?", "q">>, "Mission", FALSE),
       Anchor(<<"http://", "[bad">>, "Team", FALSE) >>

Reverse(s) == [i \in 1..Len(s) |-> s[Len(s) + 1 - i]]

\* the anchors of AnchorPool at the positions in S, in document order
AnchorsAt(S) ==
    LET at == SelectSeq([i \in 1..Len(AnchorPool) |-> i], LAMBDA i : i \in S)
    IN  [k \in 1..Len(at) |-> AnchorPool[at[k]]]

\* at most MaxAnchors distinct anchors, in document order or in the reverse order
AnchorSeqs ==
    LET chosen == { AnchorsAt(S) : S \in {T \in SUBSET (1..Len(AnchorPool)) : Cardinality(T) <= MaxAnchors} }
    IN  chosen \cup { Reverse(a) : a \in chosen }

Pages ==
    { [anchors |-> a, data |-> <<>>, nav |-> <<>>, body |-> <<>>, meta |-> <<>>, paragraphs |-> <<>>] :
         a \in AnchorSeqs }

\* an anchor inside an element a content selector matches
ContentAnchor(href, text, noise) == [Anchor(href, text, noise) EXCEPT !.content = TRUE]

\* a <p> element
Paragraph(text, noise, content) == [text |-> text, noise |-> noise, content |-> content]

\* a <meta> tag
Meta(name, content) == [name |-> name, content |-> content]

\* elements that exercise the discovery sources and their filters, in
\* document order
LinkElements ==
    << [kind |-> "a", el |-> Anchor(<<"https://", "other.com", "/", "about">>, "About", FALSE)],
       [kind |-> "a", el |-> Anchor(<<"https://", "www.acme.io", "/", "team">>, "Team", FALSE)],
       [kind |-> "a", el |-> Anchor(<<"/", "login">>, "Team", FALSE)],
       [kind |-> "a", el |-> Anchor(<<"mailto:", "alice">>, "Contact", FALSE)],
       [kind |-> "a", el |-> Anchor(<<"/", "about">>, "here", FALSE)],
       [kind |-> "a", el |-> ContentAnchor(<<"/", "team">>, "Team", TRUE)],
       [kind |-> "a", el |-> ContentAnchor(<<"/", "about">>, "Mission", FALSE)],
       [kind |-> "data", el |-> [href |-> <<"/", "file.pdf">>, text |-> "Press"]],
       [kind |-> "data", el |-> [href |-> <<"/", "team">>, text |-> "Team"]],
       [kind |-> "a", el |-> Anchor(<<"/", "alice", "/", "careers">>, "Careers", FALSE)],
       [kind |-> "nav", el |-> "team"],
       [kind |-> "body", el |-> "Jobs"] >>

\* elements the description is read from, in document order
HeadElements ==
    << [kind |-> "meta", el |-> Meta("description", "")],
       [kind |-> "meta", el |-> Meta("description", "meta text")],
       [kind |-> "meta", el |-> Meta("og:description", "og text")],
       [kind |-> "p", el |-> Paragraph("p51", TRUE, TRUE)],
       [kind |-> "p", el |-> Paragraph("p50", FALSE, FALSE)],
       [kind |-> "p", el |-> Paragraph("p51", FALSE, FALSE)],
       [kind |-> "p", el |-> Paragraph("p400", FALSE, TRUE)] >>

\* the elements of pool at the positions in S, in document order
ElementsAt(pool, S) ==
    LET at == SelectSeq([i \in 1..Len(pool) |-> i], LAMBDA i : i \in S)
    IN  [k \in 1..Len(at) |-> pool[at[k]]]

\* the document made of the elements elems
PageOf(elems) ==
    LET of(kind) ==
            LET sel == SelectSeq(elems, LAMBDA e : e.kind = kind)
            IN  [i \in 1..Len(sel) |-> sel[i].el]
    IN  [anchors |-> of("a"), data |-> of("data"), nav |-> of("nav"), body |-> of("body"),
         meta |-> of("meta"), paragraphs |-> of("p")]

\* documents of at most MaxAnchors elements of one of the two pools
SourcePages ==
    UNION { { PageOf(ElementsAt(pool, S)) :
                 S \in {T \in SUBSET (1..Len(pool)) : Cardinality(T) <= MaxAnchors} } :
            pool \in {LinkElements, HeadElements} }

\* seeds of the crawls over SourcePages: on the host acme.js.org every URL
\* contains a skip extension
SourceSeeds == { <<"https://", "acme.io">>, <<"https://", "acme.js.org">> }

SourceBudgets == 1..MaxSourceBudget

\* the slugs the server answers with a status below 400 when probed
ServedSlugs ==
    { {}, {"about", "team", "contact"},
      {"about", "about-us", "company", "our-story", "who-we-are", "products", "team"} }

\* outcomes of the existence check of a discovered link
ExistenceOutcomes == {"head_ok", "head_error", "get_ok", "get_error", "get_raises"}

\* an answer of the server to one attempt of a request: a response with its
\* status, or none (connection refused, timeout)
Response(status) == [raised |-> FALSE, status |-> status]

NoResponse == [raised |-> TRUE, status |-> 0]

\* requests.adapters.Retry(total=3, status_forcelist=..., allowed_methods=["GET"])
retries ==
    [total |-> 3, status_forcelist |-> {500, 502, 503, 504, 429}, allowed_methods |-> {"GET"}]

\* HTTPAdapter.send under retries: answers are the server's answers to the
\* attempts in order, total the retries left; a connection error is tried
\* again for every method, a status of the force list for the allowed
\* methods, and the request raises when no retry is left
RECURSIVE SendWithRetries(_, _, _, _)
SendWithRetries(method, answers, total, attempts) ==
    LET answer == answers[1]
        again  == \/ answer.raised
                  \/ answer.status \in retries.status_forcelist /\ method \in retries.allowed_methods
    IN  IF ~again THEN [attempts |-> attempts + 1, answer |-> answer]
        ELSE IF total = 0 THEN [attempts |-> attempts + 1, answer |-> NoResponse]
        ELSE SendWithRetries(method, Tail(answers), total - 1, attempts + 1)

\* OutcomeOf with the GET tried after every HEAD that did not succeed
OutcomeOf_GetAfterErrorStatus(head, get) ==
    IF ~head.raised /\ head.status < 400 THEN "head_ok"
    ELSE IF get.raised THEN "get_raises"
    ELSE IF get.status < 400 THEN "get_ok"
    ELSE "get_error"

\* the existence check of a link: session.head, and session.get when the
\* HEAD request raised; head and get are what the two calls end with
OutcomeOf(head, get) ==
    IF ~head.raised
    THEN IF head.status < 400 THEN "head_ok" ELSE "head_error"
    ELSE IF get.raised THEN "get_raises"
    ELSE IF get.status < 400 THEN "get_ok"
    ELSE "get_error"

\* outcomes of the content request of a prioritized page
FetchOutcomes == {"ok", "request_error", "not_html", "no_text"}

\* what an entity extractor finds on a fetched page, before its own
\* post-processing; Raises stands for an exception escaping the extractor
Raises == <<"raises">>

ExtractedLists == { <<>>, <<"n1", "n1">> }

\* common_paths of the supplementary discovery
common_paths ==
    <<"about", "about-us", "company", "our-story", "who-we-are",
      "products", "product", "services", "solutions", "platform", "features",
      "team", "our-team", "leadership", "founders", "people",
      "contact", "contact-us", "get-in-touch", "support",
      "news", "blog", "press", "media", "updates", "insights">>

\* key_page_types with team in front of about
key_page_types_TeamFirst == <<"team", "about", "products", "contact", "news">>

\* key_page_types with careers among the key types
key_page_types_WithCareers == <<"careers", "about", "team", "products", "contact", "news">>

key_page_types == <<"about", "team", "products", "contact", "news">>

(***************************************************************************)
(* State of one call of scrape_website.                                    *)
(***************************************************************************)
VARIABLES
    pc,                   \* position in scrape_website
    url,                  \* argument: the seed URL
    max_pages,            \* argument: the page budget
    served,               \* environment: the slugs the server answered the probes for
    seed_page,            \* the seed document as the server sent it
    main_soup,            \* the parsed seed page after noise removal
    description,          \* Step 2: the description read from main_soup
    links_with_context,   \* deduplicated (url, context) candidates
    link_i,               \* index of the verification loop
    unique_links,
    all_discovered_links, \* set of verified (url, context)
    verified_links,
    dead,                 \* URLs whose existence check failed
    classified_pages,     \* label -> list of (url, context)
    classified_keys,      \* insertion order of the keys of classified_pages
    additional_found,
    priority_pages,       \* list of (url, context, page_type)
    scrape_i,             \* index of the content loop
    scraped_urls,
    fetched,              \* content GETs in order: the URL, and whether the server
                          \* answered with an HTML page the text was read from
    all_text,             \* sections of the combined text
    pages_scraped,
    scraped_data_parts,
    result,               \* what the caller gets
    call                  \* a call of one of the URL helpers on its own

vars == <<pc, url, max_pages, served, seed_page, main_soup, description, links_with_context, link_i, unique_links,
          all_discovered_links, verified_links, dead, classified_pages, classified_keys,
          additional_found, priority_pages, scrape_i, scraped_urls, fetched,
          all_text, pages_scraped, scraped_data_parts, result, call>>

EmptySoup ==
    [anchors |-> <<>>, data |-> <<>>, nav |-> <<>>, body |-> <<>>, meta |-> <<>>, paragraphs |-> <<>>]

EmptyParts ==
    [about_page |-> <<>>, contact_info |-> <<>>, team_info |-> <<>>,
     products_services |-> <<>>, news_data |-> <<>>]

NoResult == [kind |-> "none"]

base_url == <<urlparse(url).scheme>> \o urlparse(url).netloc

NoCall == [fn |-> "none", arg |-> <<>>, base |-> <<>>, out |-> <<>>, again |-> <<>>, step |-> 0]

\* the crawl variables before Step 1
CrawlStart ==
    /\ seed_page = EmptySoup
    /\ main_soup = EmptySoup
    /\ description = ""
    /\ links_with_context = <<>>
    /\ link_i = 1
    /\ unique_links = {}
    /\ all_discovered_links = {}
    /\ verified_links = <<>>
    /\ dead = {}
    /\ classified_pages = [t \in Range(PageTypes) |-> <<>>]
    /\ classified_keys = <<>>
    /\ additional_found = 0
    /\ priority_pages = <<>>
    /\ scrape_i = 1
    /\ scraped_urls = {}
    /\ fetched = <<>>
    /\ all_text = <<>>
    /\ pages_scraped = <<>>
    /\ scraped_data_parts = EmptyParts
    /\ result = NoResult

Init ==
    /\ pc = "start"
    /\ url \in Seeds
    /\ max_pages \in Budgets
    /\ served = {}
    /\ call = NoCall
    /\ CrawlStart

(***************************************************************************)
(* Helpers of the crawl loop.                                              *)
(***************************************************************************)
\* Python's order of the tokens as strings
TokenOrder ==
    <<" ", "/", "?", "[bad", "about", "about-company", "about-us", "acme.io", "acme.js.org", "alice", "blog",
      "careers", "company", "contact", "contact-us", "features", "file.pdf", "founders", "get-in-touch",
      "home", "http://", "https://", "index.html", "insights", "jobs", "join-us", "leadership",
      "login", "mailto:", "management", "media", "news", "old-page", "opportunities", "other.com", "our-story",
      "our-team", "people", "platform", "press", "product", "products", "q", "reach-us",
      "resources", "services", "solutions", "support", "team", "updates", "who-we-are",
      "work-with-us", "www.", "www.acme.io">>

TokenRank(t) == CHOOSE i \in 1..Len(TokenOrder) : TokenOrder[i] = t

\* a < b for two URL strings
RECURSIVE StrLess(_, _)
StrLess(a, b) ==
    IF b = <<>> THEN FALSE
    ELSE IF a = <<>> THEN TRUE
    ELSE IF a[1] = b[1] THEN StrLess(Tail(a), Tail(b))
    ELSE TokenRank(a[1]) < TokenRank(b[1])

\* len(url.split('/'))
SplitCount(u) ==
    1 + Cardinality({i \in 1..Len(u) : u[i] = "/"})
      + 2 * Cardinality({i \in 1..Len(u) : u[i] \in SchemeToks})

\* KeyLess by the URL alone
KeyLess_UrlOnly(x, y) == StrLess(x[1], y[1])

\* the sort key (len(x[0].split('/')), x[0])
KeyLess(x, y) ==
    \/ SplitCount(x[1]) < SplitCount(y[1])
    \/ SplitCount(x[1]) = SplitCount(y[1]) /\ StrLess(x[1], y[1])

\* list.sort is stable: an element goes behind the elements not greater
RECURSIVE InsertSorted(_, _)
InsertSorted(x, sorted) ==
    IF sorted = <<>> THEN <<x>>
    ELSE IF KeyLess(x, sorted[1]) THEN <<x>> \o sorted
    ELSE <<sorted[1]>> \o InsertSorted(x, Tail(sorted))

RECURSIVE SortByKey(_, _)
SortByKey(todo, sorted) ==
    IF todo = <<>> THEN sorted
    ELSE SortByKey(Tail(todo), InsertSorted(todo[1], sorted))

\* first occurrences, in order (seen-set loops and dict.fromkeys)
Unique(s) ==
    LET kept == SelectSeq([i \in 1..Len(s) |-> i], LAMBDA i : \A j \in 1..(i - 1) : s[j] # s[i])
    IN  [k \in 1..Len(kept) |-> s[kept[k]]]

RECURSIVE Flatten(_)
Flatten(ss) == IF ss = <<>> THEN <<>> ELSE ss[1] \o Flatten(Tail(ss))

\* the classification loop body for one (url, context): cp = [pages, keys]
RECURSIVE AddClassified(_, _, _, _)
AddClassified(cp, link_url, context, classifications) ==
    IF classifications = <<>> THEN cp
    ELSE LET classification == classifications[1]
             existing_urls == {cp.pages[classification][i][1] : i \in 1..Len(cp.pages[classification])}
             keys == IF classification \in Range(cp.keys) THEN cp.keys
                     ELSE Append(cp.keys, classification)
             pages == IF \E existing_url \in existing_urls : urls_are_equivalent(link_url, existing_url)
                      THEN cp.pages
                      ELSE [cp.pages EXCEPT ![classification] = Append(@, <<link_url, context>>)]
         IN  AddClassified([pages |-> pages, keys |-> keys], link_url, context, Tail(classifications))

RECURSIVE ClassifyVerified(_, _)
ClassifyVerified(cp, links) ==
    IF links = <<>> THEN cp
    ELSE ClassifyVerified(
            AddClassified(cp, links[1][1], links[1][2], classify_page(links[1][1], links[1][2], <<>>)),
            Tail(links))

\* KeyTypePass without the slot reserved for the main page
RECURSIVE KeyTypePass_NoReservedSlot(_, _, _, _)
KeyTypePass_NoReservedSlot(types, pages, budget, priority) ==
    IF types = <<>> THEN priority
    ELSE LET page_type == types[1]
         IN  IF pages[page_type] # <<>> /\ Len(priority) < budget
             THEN KeyTypePass_NoReservedSlot(Tail(types), pages, budget,
                     Append(priority, <<pages[page_type][1][1], pages[page_type][1][2], page_type>>))
             ELSE KeyTypePass_NoReservedSlot(Tail(types), pages, budget, priority)

\* Step 5, first loop: one page of each key type, while slots are free
RECURSIVE KeyTypePass(_, _, _, _)
KeyTypePass(types, pages, budget, priority) ==
    IF types = <<>> THEN priority
    ELSE LET page_type == types[1]
         IN  IF pages[page_type] # <<>> /\ Len(priority) < budget - 1
             THEN KeyTypePass(Tail(types), pages, budget,
                     Append(priority, <<pages[page_type][1][1], pages[page_type][1][2], page_type>>))
             ELSE KeyTypePass(Tail(types), pages, budget, priority)

\* the types the fill pass may draw from: every key of classified_pages
FillTypes(keys) == keys

\* Step 5, second part: the remaining classified pages, sorted
remaining_classified(pages, keys, priority) ==
    LET perType(ptype) ==
            LET kept == SelectSeq(pages[ptype],
                                  LAMBDA e : ~\E i \in 1..Len(priority) : priority[i][1] = e[1])
            IN  [i \in 1..Len(kept) |-> <<kept[i][1], kept[i][2], ptype>>]
        types == FillTypes(keys)
    IN  SortByKey(Flatten([k \in 1..Len(types) |-> perType(types[k])]), <<>>)

\* FillPass that takes every remaining page, whatever the budget
FillPass_NoSlotLimit(pages, keys, budget, first) ==
    first \o remaining_classified(pages, keys, first)

\* Step 5, third part: the slots the key types left are filled
FillPass(pages, keys, budget, first) ==
    LET remaining_slots == budget - Len(first) - 1
    IN  IF remaining_slots > 0
        THEN first \o Take(remaining_classified(pages, keys, first), remaining_slots)
        ELSE first

prioritize(pages, keys, budget) ==
    FillPass(pages, keys, budget, KeyTypePass(key_page_types, pages, budget, <<>>))

(***************************************************************************)
(* scrape_website, one action per request or processing step.              *)
(***************************************************************************)
\* ScrapedData returned from the except branches of Step 1
ErrorData(message) ==
    [kind |-> "data", company_name |-> urlparse(url).netloc, description |-> message,
     raw_text |-> <<>>, team_info |-> <<>>, about_page |-> <<>>, contact_info |-> <<>>,
     products_services |-> <<>>, news_data |-> <<>>, pages_scraped |-> <<>>,
     total_pages_found |-> -1]

\* SeedFailure with the exception handed on to the caller
SeedFailure_Raises(outcome) == [pc |-> "raised", result |-> [kind |-> "exception"]]

\* what Step 1 does with the outcome of session.get(url) and of the parse
SeedFailure(outcome) ==
    IF outcome = "request_error"
    THEN [pc |-> "returned", result |-> ErrorData("Error fetching website")]
    ELSE [pc |-> "returned", result |-> ErrorData("Error parsing website")]

\* the lengths of the paragraph texts of the model
ParagraphLen(text) ==
    CASE text = "p50"  -> 50
      [] text = "p51"  -> 51
      [] text = "p400" -> 400
      [] OTHER         -> 0

\* text[:300]
Truncate300(text) == IF ParagraphLen(text) > 300 THEN "p400[:300]" ELSE text

\* extract_description: the first meta description, the first Open-Graph
\* description, the first paragraph
extract_description(soup) ==
    LET meta_desc == SelectSeq(soup.meta, LAMBDA m : m.name = "description")
        og_desc   == SelectSeq(soup.meta, LAMBDA m : m.name = "og:description")
        first_p   == soup.paragraphs
    IN  IF meta_desc # <<>> /\ meta_desc[1].content # "" THEN meta_desc[1].content
        ELSE IF og_desc # <<>> /\ og_desc[1].content # "" THEN og_desc[1].content
        ELSE IF first_p # <<>> /\ ParagraphLen(first_p[1].text) > 50 THEN Truncate300(first_p[1].text)
        ELSE ""

\* requests raises MissingSchema, a RequestException, for a URL without scheme
MissingSchema(u) == u = <<>> \/ u[1] \notin SchemeToks

\* how session.get(url) and the parse of the answer can end
SeedOutcomes(u) ==
    IF MissingSchema(u) THEN {"request_error"} ELSE {"ok", "request_error", "parse_error"}

\* Step 1 and 2: GET the seed page, parse it, strip the noise from the parsed
\* document and read the description from that document; pages are the
\* documents the server may answer with
FetchSeedFrom(pages) ==
    /\ pc = "start"
    /\ \E outcome \in SeedOutcomes(url) :
          /\ fetched' = Append(fetched, [url |-> url, ok |-> outcome = "ok"])
          /\ IF outcome = "ok"
             THEN /\ \E page \in pages :
                        /\ seed_page' = page
                        /\ \E cleaned \in {remove_noise_elements(page)} :
                              /\ main_soup' = cleaned
                              /\ description' = extract_description(cleaned)
                  /\ all_text' = << <<"MAIN PAGE">> >>
                  /\ pages_scraped' = << [url |-> url, type |-> "main"] >>
                  /\ pc' = "discover"
                  /\ result' = result
             ELSE /\ pc' = SeedFailure(outcome).pc
                  /\ result' = SeedFailure(outcome).result
                  /\ UNCHANGED <<seed_page, main_soup, description, all_text, pages_scraped>>
    /\ UNCHANGED <<call, url, max_pages, served, links_with_context, link_i, unique_links,
                   all_discovered_links, verified_links, dead, classified_pages,
                   classified_keys, additional_found, priority_pages, scrape_i,
                   scraped_urls, scraped_data_parts>>

FetchSeed == FetchSeedFrom(Pages)

\* Step 3: extract_links_with_context and deduplicate_urls; an exception
\* here reaches the outer handler, which raises to the caller
DiscoverLinks ==
    /\ pc = "discover"
    /\ IF ExtractLinksRaises(main_soup)
       THEN /\ pc' = "raised"
            /\ result' = [kind |-> "exception"]
            /\ UNCHANGED <<links_with_context, link_i>>
       ELSE /\ links_with_context' = deduplicate_urls(extract_links_with_context(main_soup, base_url))
            /\ link_i' = 1
            /\ pc' = "verify"
            /\ result' = result
    /\ UNCHANGED <<call, url, max_pages, served, seed_page, main_soup, description, unique_links, all_discovered_links,
                   verified_links, dead, classified_pages, classified_keys, additional_found, priority_pages, scrape_i, scraped_urls, fetched,
                   all_text, pages_scraped, scraped_data_parts>>

\* ExistenceKeeps without the status test on the GET response
ExistenceKeeps_AnyGetResponse(outcome) == outcome \in {"head_ok", "get_ok", "get_error"}

\* the existence check keeps a link when HEAD, or GET after a failed HEAD,
\* answers with a status below 400
ExistenceKeeps(outcome) == outcome \in {"head_ok", "get_ok"}

\* the server answered the existence check with an error status or not at all
AnsweredError(outcome) == outcome \in {"head_error", "get_error", "get_raises"}

\* IsCandidate that stops looking once a link has been kept
IsCandidate_UntilFirstKept(link_url) ==
    is_same_domain(link_url, url) /\ link_url # url /\ verified_links = <<>>

\* IsCandidate without the comparison of the hosts
IsCandidate_AnyHost(link_url) == link_url # url

\* the links the verification loop looks at
IsCandidate(link_url) == is_same_domain(link_url, url) /\ link_url # url

\* Step 4, first loop: one iteration
VerifyLink ==
    /\ pc = "verify"
    /\ link_i <= Len(links_with_context)
    /\ LET link_url == links_with_context[link_i][1]
           context  == links_with_context[link_i][2]
       IN  IF IsCandidate(link_url) /\ link_url \notin unique_links
           THEN /\ unique_links' = unique_links \cup {link_url}
                /\ \E outcome \in ExistenceOutcomes :
                      /\ dead' = IF AnsweredError(outcome) THEN dead \cup {link_url} ELSE dead
                      /\ IF ExistenceKeeps(outcome)
                         THEN /\ all_discovered_links' = all_discovered_links \cup {<<link_url, context>>}
                              /\ verified_links' = Append(verified_links, <<link_url, context>>)
                         ELSE UNCHANGED <<all_discovered_links, verified_links>>
           ELSE UNCHANGED <<unique_links, all_discovered_links, verified_links, dead>>
    /\ link_i' = link_i + 1
    /\ UNCHANGED <<call, pc, url, max_pages, served, seed_page, main_soup, description, links_with_context, classified_pages,
                   classified_keys, additional_found, priority_pages, scrape_i,
                   scraped_urls, fetched, all_text, pages_scraped, scraped_data_parts, result>>

\* Step 4, second loop: classify the verified links
ClassifyLinks ==
    /\ pc = "verify"
    /\ link_i > Len(links_with_context)
    /\ \E cp \in {ClassifyVerified([pages |-> classified_pages, keys |-> classified_keys],
                                    verified_links)} :
          /\ classified_pages' = cp.pages
          /\ classified_keys' = cp.keys
    /\ pc' = IF Cardinality(all_discovered_links) < 3 THEN "supplement" ELSE "prioritize"
    /\ UNCHANGED <<call, url, max_pages, served, seed_page, main_soup, description, links_with_context, link_i, unique_links,
                   all_discovered_links, verified_links, dead, additional_found,
                   priority_pages, scrape_i, scraped_urls, fetched, all_text, pages_scraped,
                   scraped_data_parts, result>>

\* HEAD test_url is answered with a status below 400: the server has the
\* slug, and it answers the existence check of a URL as it did before
ProbeKeeps(path, test_url, server) == path \in server /\ test_url \notin dead

\* HasEquivalent with the comparison dropped
HasEquivalent_Unchecked(test_url, links) == FALSE

\* any(urls_are_equivalent(test_url, existing_url) for existing_url, _ in links)
HasEquivalent(test_url, links) == \E e \in links : urls_are_equivalent(test_url, e[1])

\* ProbeDone without the limit
ProbeDone_Unlimited(found) == FALSE

\* the supplementary loop stops after 5 additions
ProbeDone(found) == found >= 5

\* supplementary discovery: the loop over common_paths from index i on;
\* st = [links, pages, keys, found] are all_discovered_links, classified_pages
\* with its key order, and additional_found
RECURSIVE ProbePaths(_, _, _)
ProbePaths(i, server, st) ==
    IF i > Len(common_paths) THEN st
    ELSE LET path == common_paths[i]
             add(test_url, context, cp) ==
                 [links |-> st.links \cup {<<test_url, context>>},
                  pages |-> cp.pages, keys |-> cp.keys, found |-> st.found + 1]
             go(added) ==
                 IF ProbeDone(added.found) THEN added ELSE ProbePaths(i + 1, server, added)
             \* a slug is added when no link of the set is equivalent to its URL
             \* and the HEAD request is answered below 400; neither test changes
             \* the crawl, the answer of the server is looked at first
             probe(test_url, context) ==
                 IF ~ProbeKeeps(path, test_url, server)
                     THEN ProbePaths(i + 1, server, st)
                 ELSE IF HasEquivalent(test_url, st.links)
                     THEN ProbePaths(i + 1, server, st)
                 ELSE go(add(test_url, context,
                             AddClassified([pages |-> st.pages, keys |-> st.keys],
                                           test_url, context,
                                           classify_page(test_url, <<path>>, <<>>))))
         IN  probe(base_url \o <<"/", path>>, <<path, " ", "(direct discovery)">>)

\* supplementary discovery, run when fewer than 3 links are verified: every
\* slug of common_paths is probed with HEAD
SupplementLinks ==
    /\ pc = "supplement"
    /\ \E server \in ServedSlugs :
          /\ served' = server
          /\ \E st \in {ProbePaths(1, server,
                                   [links |-> all_discovered_links, pages |-> classified_pages,
                                    keys |-> classified_keys, found |-> 0])} :
                /\ all_discovered_links' = st.links
                /\ classified_pages' = st.pages
                /\ classified_keys' = st.keys
                /\ additional_found' = st.found
    /\ pc' = "prioritize"
    /\ UNCHANGED <<call, url, max_pages, seed_page, main_soup, description, links_with_context, link_i, unique_links,
                   verified_links, dead, priority_pages, scrape_i, scraped_urls, fetched,
                   all_text, pages_scraped, scraped_data_parts, result>>

\* Step 5
PrioritizePages ==
    /\ pc = "prioritize"
    /\ priority_pages' = prioritize(classified_pages, classified_keys, max_pages)
    /\ scrape_i' = 1
    /\ pc' = "scrape"
    /\ UNCHANGED <<call, url, max_pages, served, seed_page, main_soup, description, links_with_context, link_i, unique_links,
                   all_discovered_links, verified_links, dead, classified_pages, classified_keys,
                   additional_found, scraped_urls, fetched, all_text, pages_scraped,
                   scraped_data_parts, result>>

\* the guards in front of the content request of Step 6
AlreadyScraped(page_url) == \E scraped_url \in scraped_urls : urls_are_equivalent(page_url, scraped_url)

IsMainPage(page_url) == page_url = url

\* MergeEntities with the entities of the earlier pages dropped when the
\* extractor raises
MergeEntities_RaiseDropsEntities(parts, page_type, page_url, items) ==
    IF page_type # "about" /\ items = Raises THEN EmptyParts
    ELSE IF page_type = "about" /\ parts.about_page = <<>> THEN [parts EXCEPT !.about_page = page_url]
    ELSE parts

\* the entity branch of Step 6 for a fetched page; items is what the
\* extractor finds on the page, Raises an exception escaping it
MergeEntities(parts, page_type, page_url, items) ==
    IF page_type = "about"
    THEN IF parts.about_page = <<>> THEN [parts EXCEPT !.about_page = page_url] ELSE parts
    ELSE IF items = Raises THEN parts
    ELSE IF page_type = "contact"
    THEN \* extract_contact_info returns list(set(emails)); merged lists are deduplicated
         [parts EXCEPT !.contact_info = Unique(@ \o Unique(items))]
    ELSE IF page_type = "team"
    THEN \* extract_team_info removes duplicate names itself
         [parts EXCEPT !.team_info =
             @ \o SelectSeq(Unique(items), LAMBDA m : m \notin Range(parts.team_info))]
    ELSE IF page_type = "products"
    THEN [parts EXCEPT !.products_services =
             @ \o SelectSeq(items, LAMBDA m : m \notin Range(parts.products_services))]
    ELSE IF page_type = "news"
    THEN [parts EXCEPT !.news_data =
             @ \o SelectSeq(items, LAMBDA m : m \notin Range(parts.news_data))]
    ELSE parts

\* FetchSucceeds without the content-type test
FetchSucceeds_AnyContentType(outcome) == outcome \in {"ok", "not_html"}

\* does the outcome of the content request let the page through to the
\* text extraction
FetchSucceeds(outcome) == outcome = "ok"

\* AddSection with the new section put right behind the main page section
AddSection_BehindMain(text, page_type, page_url) ==
    <<text[1], <<page_type, page_url>> >> \o Tail(text)

\* all_text += "--- {PAGE_TYPE} PAGE: {page_url} ---" and the cleaned text
AddSection(text, page_type, page_url) == Append(text, <<page_type, page_url>>)

\* Step 6: one iteration of the content loop
ScrapePage ==
    /\ pc = "scrape"
    /\ scrape_i <= Len(priority_pages)
    /\ LET page_url  == priority_pages[scrape_i][1]
           page_type == priority_pages[scrape_i][3]
       IN  IF AlreadyScraped(page_url) \/ IsMainPage(page_url)
           THEN UNCHANGED <<fetched, all_text, scraped_urls, scraped_data_parts, pages_scraped>>
           ELSE \E outcome \in FetchOutcomes :
                   /\ fetched' = Append(fetched, [url |-> page_url, ok |-> outcome = "ok"])
                   /\ IF FetchSucceeds(outcome)
                      THEN /\ all_text' = AddSection(all_text, page_type, page_url)
                           /\ scraped_urls' = scraped_urls \cup {page_url}
                           /\ \E items \in ExtractedLists \cup {Raises} :
                                 scraped_data_parts' =
                                     MergeEntities(scraped_data_parts, page_type, page_url, items)
                           /\ pages_scraped' = Append(pages_scraped, [url |-> page_url, type |-> page_type])
                      ELSE UNCHANGED <<all_text, scraped_urls, scraped_data_parts, pages_scraped>>
    /\ scrape_i' = scrape_i + 1
    /\ UNCHANGED <<call, pc, url, max_pages, served, seed_page, main_soup, description, links_with_context, link_i, unique_links,
                   all_discovered_links, verified_links, dead, classified_pages, classified_keys,
                   additional_found, priority_pages, result>>

\* Step 7: the ScrapedData of a completed crawl
FinalData ==
    [kind |-> "data", company_name |-> <<"name">>, description |-> description,
     raw_text |-> all_text,
     team_info |-> Unique(scraped_data_parts.team_info),
     about_page |-> scraped_data_parts.about_page,
     contact_info |-> scraped_data_parts.contact_info,
     products_services |-> scraped_data_parts.products_services,
     news_data |-> scraped_data_parts.news_data,
     pages_scraped |-> pages_scraped,
     total_pages_found |-> Cardinality(all_discovered_links)]

Finish ==
    /\ pc = "scrape"
    /\ scrape_i > Len(priority_pages)
    /\ result' = FinalData
    /\ pc' = "returned"
    /\ UNCHANGED <<call, url, max_pages, served, seed_page, main_soup, description, links_with_context, link_i, unique_links,
                   all_discovered_links, verified_links, dead, classified_pages, classified_keys,
                   additional_found, priority_pages, scrape_i, scraped_urls, fetched,
                   all_text, pages_scraped, scraped_data_parts>>

Next ==
    \/ FetchSeed
    \/ DiscoverLinks
    \/ VerifyLink
    \/ ClassifyLinks
    \/ SupplementLinks
    \/ PrioritizePages
    \/ ScrapePage
    \/ Finish

Spec == Init /\ [][Next]_vars

\* the crawl when every network request returns or raises: the requests carry
\* timeouts and the statements run one after the other, so a crawl that is
\* not over goes on to its next statement. Every step of Next moves the
\* position of the crawl, which is pc, link_i and scrape_i, and the fairness
\* is stated on that position
SpecFair ==
    /\ Init
    /\ [][Next]_vars
    /\ WF_<<pc, link_i, scrape_i>>(
          /\ pc \notin {"returned", "raised"}
          /\ \/ /\ pc' \in {"discover", "verify", "supplement", "prioritize", "scrape",
                              "returned", "raised"} \ {pc}
                /\ UNCHANGED <<link_i, scrape_i>>
             \/ /\ link_i' = link_i + 1
                /\ UNCHANGED <<pc, scrape_i>>
             \/ /\ scrape_i' = scrape_i + 1
                /\ UNCHANGED <<pc, link_i>>)

(***************************************************************************)
(* The crawl over seed documents that exercise every discovery source, the *)
(* noise filter and the description.                                       *)
(***************************************************************************)
InitSources ==
    /\ pc = "start"
    /\ url \in SourceSeeds
    /\ max_pages \in SourceBudgets
    /\ served = {}
    /\ call = NoCall
    /\ CrawlStart

NextSources ==
    \/ FetchSeedFrom(SourcePages)
    \/ DiscoverLinks
    \/ VerifyLink
    \/ ClassifyLinks
    \/ SupplementLinks
    \/ PrioritizePages
    \/ ScrapePage
    \/ Finish

SpecSources == InitSources /\ [][NextSources]_vars

(***************************************************************************)
(* The URL helpers called on their own, on bounded sets of arguments.      *)
(***************************************************************************)
HrefAlphabet == {"/", "about", "?", "#", " "}

TokenSeqs(alphabet, n) == UNION {[1..k -> alphabet] : k \in 0..n}

\* hrefs as they stand in a page: relative references and absolute URLs
RawHrefs ==
    TokenSeqs(HrefAlphabet, MaxHrefLen)
    \cup {<<"https://", "acme.io">> \o r : r \in TokenSeqs(HrefAlphabet, MaxHrefLen - 1)}
    \cup {<<"http://", "other.com">> \o r : r \in TokenSeqs(HrefAlphabet, MaxHrefLen - 2)}

Bases == { <<"https://", "acme.io">>, <<"http://", "acme.io">> }

IdleCrawl ==
    /\ pc = "idle"
    /\ url = <<"https://", "acme.io">>
    /\ max_pages = 0
    /\ served = {}
    /\ CrawlStart

crawl_vars == <<pc, url, max_pages, served, seed_page, main_soup, description, links_with_context, link_i, unique_links,
                all_discovered_links, verified_links, dead, classified_pages, classified_keys,
                additional_found, priority_pages, scrape_i, scraped_urls, fetched,
                all_text, pages_scraped, scraped_data_parts, result>>

InitNormalize ==
    /\ IdleCrawl
    /\ \E u \in RawHrefs, b \in Bases :
          call = [fn |-> "normalize_url", arg |-> u, base |-> b, out |-> <<>>, again |-> <<>>,
                  step |-> 0]

\* normalize_url(u, b)
Normalize ==
    /\ call.fn = "normalize_url"
    /\ call.step = 0
    /\ call' = [call EXCEPT !.out = normalize_url(call.arg, call.base), !.step = 1]
    /\ UNCHANGED crawl_vars

\* normalize_url applied to its own result
NormalizeAgain ==
    /\ call.fn = "normalize_url"
    /\ call.step = 1
    /\ call' = [call EXCEPT !.again = normalize_url(call.out, call.base), !.step = 2]
    /\ UNCHANGED crawl_vars

NextNormalize ==
    \/ Normalize
    \/ NormalizeAgain

SpecNormalize == InitNormalize /\ [][NextNormalize]_vars

\* URLs as they reach deduplicate_urls: normalized hrefs and guessed URLs
DedupUrls ==
    { <<"https://", "acme.io", "/", "about">>,
      <<"https://", "acme.io", "/", "about", "/">>,
      <<"https://", "acme.io", "/", "about", "?", "q">>,
      <<"http://", "acme.io", "/", "about">>,
      <<"https://", "www.acme.io", "/", "about">>,
      <<"https://", "acme.io", "/", "team">>,
      <<"https://", "acme.io", "/", "team", "/", "?", "q", "/">>,
      <<"https://", "acme.io", "/", "about", "/", "team">> }

DedupContexts == { <<"About">>, <<"Team">> }

DedupInputs == TokenSeqs(DedupUrls \X DedupContexts, MaxDedupLen)

InitDedup ==
    /\ IdleCrawl
    /\ \E l \in DedupInputs :
          call = [fn |-> "deduplicate_urls", arg |-> l, base |-> <<>>, out |-> <<>>, again |-> <<>>,
                  step |-> 0]

\* deduplicate_urls(l)
Deduplicate ==
    /\ call.fn = "deduplicate_urls"
    /\ call.step = 0
    /\ call' = [call EXCEPT !.out = deduplicate_urls(call.arg), !.step = 1]
    /\ UNCHANGED crawl_vars

NextDedup ==
    \/ Deduplicate

SpecDedup == InitDedup /\ [][NextDedup]_vars

\* arguments of classify_page called on its own
ClassifyUrls ==
    { <<"https://", "acme.io", "/", w>> :
         w \in {"our-team", "about", "who-we-are", "careers", "old-page", "contact"} }

ClassifyTexts ==
    { <<>>, <<"Leadership">>, <<"About">>, <<"Careers">>, <<"x">>,
      <<"team", " ", "(direct discovery)">> }

\* a content is the sequence of labels one of whose content indicators it contains
ClassifyContents == TokenSeqs(Range(PageTypes), MaxContentLen)

InitClassify ==
    /\ IdleCrawl
    /\ \E u \in ClassifyUrls, t \in ClassifyTexts, c \in ClassifyContents :
          call = [fn |-> "classify_page", arg |-> [url |-> u, link_text |-> t, content |-> c],
                  base |-> <<>>, out |-> <<>>, again |-> <<>>, step |-> 0]

\* classify_page(url, link_text, content)
Classify ==
    /\ call.fn = "classify_page"
    /\ call.step = 0
    /\ call' = [call EXCEPT !.out = classify_page(call.arg.url, call.arg.link_text, call.arg.content),
                            !.step = 1]
    /\ UNCHANGED crawl_vars

NextClassify ==
    \/ Classify

SpecClassify == InitClassify /\ [][NextClassify]_vars

\* arguments of extract_company_name called on its own
TitleWords == {"Acme", "AI", "Best", "Platform", "Long28", "|", "-"}

\* the title of the marketing example
ExampleTitle == <<"Best", "AI", "Platform", "For Your", "Business">>

Titles == TokenSeqs(TitleWords, MaxTitleLen) \cup {ExampleTitle}

\* no og:site_name, an empty one, a name, marketing copy
SiteNames ==
    { [present |-> FALSE, content |-> <<>>], [present |-> TRUE, content |-> <<>>],
      [present |-> TRUE, content |-> <<"Acme", "AI">>],
      [present |-> TRUE, content |-> <<"Best", "Platform">>] }

NameSoups ==
    { [title |-> [present |-> FALSE, text |-> <<>>], og_site_name |-> og] : og \in SiteNames }
    \cup { [title |-> [present |-> TRUE, text |-> t], og_site_name |-> og] :
              t \in Titles, og \in SiteNames }

NameUrls ==
    { <<"https://", "www", ".", "acme", ".", "io">>,
      <<"https://", "my", "-", "co", "_", "labs", ".", "io", "/", "about">>,
      <<"https://", "ACME", ".", "io">> }

InitCompanyName ==
    /\ IdleCrawl
    /\ \E soup \in NameSoups, u \in NameUrls :
          call = [fn |-> "extract_company_name", arg |-> [soup |-> soup, url |-> u],
                  base |-> <<>>, out |-> <<>>, again |-> <<>>, step |-> 0]

\* extract_company_name(soup, url)
ExtractCompanyName ==
    /\ call.fn = "extract_company_name"
    /\ call.step = 0
    /\ call' = [call EXCEPT !.out = extract_company_name(call.arg.soup, call.arg.url), !.step = 1]
    /\ UNCHANGED crawl_vars

NextCompanyName ==
    \/ ExtractCompanyName

SpecCompanyName == InitCompanyName /\ [][NextCompanyName]_vars

\* requests of the session on their own: what the server answers to an attempt
AttemptAnswers == {Response(200), Response(404), Response(429), Response(500), NoResponse}

InitRequests ==
    /\ IdleCrawl
    /\ \/ \E method \in {"GET", "HEAD"}, answers \in [1..MaxAnswers -> AttemptAnswers] :
             call = [fn |-> "session.request", arg |-> [method |-> method, answers |-> answers],
                     base |-> <<>>, out |-> <<>>, again |-> <<>>, step |-> 0]
       \/ \E head \in AttemptAnswers, get \in AttemptAnswers :
             call = [fn |-> "exists", arg |-> [head |-> head, get |-> get],
                     base |-> <<>>, out |-> <<>>, again |-> <<>>, step |-> 0]

\* session.get(...) or session.head(...) through the mounted adapter
SessionRequest ==
    /\ call.fn = "session.request"
    /\ call.step = 0
    /\ call' = [call EXCEPT !.out = SendWithRetries(call.arg.method, call.arg.answers, retries.total, 0),
                            !.step = 1]
    /\ UNCHANGED crawl_vars

\* the existence check of one link of the verification loop
CheckExists ==
    /\ call.fn = "exists"
    /\ call.step = 0
    /\ call' = [call EXCEPT !.out = [outcome |-> OutcomeOf(call.arg.head, call.arg.get),
                                     kept |-> ExistenceKeeps(OutcomeOf(call.arg.head, call.arg.get))],
                            !.step = 1]
    /\ UNCHANGED crawl_vars

NextRequests ==
    \/ SessionRequest
    \/ CheckExists

SpecRequests == InitRequests /\ [][NextRequests]_vars

\* arguments of should_skip_url called on its own: a host, path segments
\* and a query string
RECURSIVE PathOf(_)
PathOf(segments) == IF segments = <<>> THEN <<>> ELSE <<"/", segments[1]>> \o PathOf(Tail(segments))

SkipUrls ==
    { <<"https://", host>> \o PathOf(segments) \o query :
         host \in {"acme.io", "acme.js.org", "github.com"},
         segments \in TokenSeqs({"about", "login", "file.pdf"}, MaxSegments),
         query \in { <<>>, <<"?", "q">>, <<"?", "github.com">>, <<"?", "file.pdf">> } }

InitSkip ==
    /\ IdleCrawl
    /\ \E u \in SkipUrls :
          call = [fn |-> "should_skip_url", arg |-> u,
                  base |-> <<>>, out |-> <<>>, again |-> <<>>, step |-> 0]

\* should_skip_url(url)
ShouldSkip ==
    /\ call.fn = "should_skip_url"
    /\ call.step = 0
    /\ call' = [call EXCEPT !.out = should_skip_url(call.arg), !.step = 1]
    /\ UNCHANGED crawl_vars

NextSkip ==
    \/ ShouldSkip

SpecSkip == InitSkip /\ [][NextSkip]_vars

(***************************************************************************)
(* Properties.                                                             *)
(***************************************************************************)
\* number of classified (label, url) entries
ClassifiedCount ==
    LET n[i \in 0..Len(PageTypes)] ==
            IF i = 0 THEN 0 ELSE n[i - 1] + Len(classified_pages[PageTypes[i]])
    IN  n[Len(PageTypes)]

\* C1: the prioritized list never has more than max_pages - 1 entries, and
\* it is empty when max_pages <= 1, whatever was classified.
C1_BudgetInvariant ==
    /\ Len(priority_pages) <= max_pages - 1
    /\ max_pages <= 1 => priority_pages = <<>>

\* C1 witness: prioritization has run with more classified candidates than
\* free slots and filled every slot.
C1_Witness ==
    /\ pc = "scrape"
    /\ max_pages >= 2
    /\ ClassifiedCount > max_pages - 1
    /\ Len(priority_pages) = max_pages - 1

\* the request for the seed page has been answered and it failed, or the
\* page it delivered could not be parsed
SeedFailed == fetched # <<>> /\ ~fetched[1].ok

OkFetches == Cardinality({i \in 1..Len(fetched) : fetched[i].ok})

\* C3: a failed content fetch of a prioritized page is not fatal.  The step of
\* the content loop that meets it adds no text section, no pages_scraped
\* entry and no entity, leaves what the earlier pages gave as it is and goes
\* on to the next prioritized page; and the crawl returns a result only after
\* every prioritized page had its turn, with one text section and one
\* pages_scraped entry per page delivered, and the entity fields as
\* the delivered pages left them.
C3_FailedPageFetchNotFatal ==
    [][ /\ (pc = "scrape" /\ Len(fetched') = Len(fetched) + 1 /\ ~fetched'[Len(fetched')].ok) =>
              /\ pc' = "scrape"
              /\ scrape_i' = scrape_i + 1
              /\ UNCHANGED <<all_text, pages_scraped, scraped_data_parts, scraped_urls,
                             priority_pages, result>>
        /\ (pc = "scrape" /\ pc' # "scrape") =>
              /\ pc' = "returned"
              /\ scrape_i = Len(priority_pages) + 1
              /\ result'.kind = "data"
              /\ Len(result'.raw_text) = OkFetches
              /\ Len(result'.pages_scraped) = OkFetches
              /\ result'.about_page = scraped_data_parts.about_page
              /\ result'.contact_info = scraped_data_parts.contact_info
              /\ result'.products_services = scraped_data_parts.products_services
              /\ result'.news_data = scraped_data_parts.news_data
      ]_vars

\* C3 witness: the crawl returned a result; a content fetch had failed, a
\* later one delivered its page, and the about page of an earlier fetch is
\* in the result.
C3_Witness ==
    /\ pc = "returned"
    /\ result.kind = "data"
    /\ \E i, j, k \in 2..Len(fetched) :
          /\ i < j /\ j < k
          /\ fetched[i].ok /\ ~fetched[j].ok /\ fetched[k].ok
    /\ result.about_page # <<>>
    /\ Len(result.raw_text) = 3

\* host and path without trailing slashes; query and fragment play no part
CanonicalClass(u) ==
    LET class(parsed) == <<parsed.netloc, RStrip(parsed.path, "/")>>
    IN  class(urlparse(u))

\* C4: after deduplicate_urls no two surviving candidates have the same host
\* and the same path up to trailing slashes, and every class of the input
\* survives with the context of its first candidate in input order.
C4_DedupKeepsFirstOfEachClass ==
    (call.fn = "deduplicate_urls" /\ call.step = 1) =>
        /\ \A i, j \in 1..Len(call.out) :
              i # j => CanonicalClass(call.out[i][1]) # CanonicalClass(call.out[j][1])
        /\ \A k \in 1..Len(call.arg) :
              LET first == CHOOSE f \in 1..k :
                              /\ CanonicalClass(call.arg[f][1]) = CanonicalClass(call.arg[k][1])
                              /\ \A g \in 1..(f - 1) :
                                    CanonicalClass(call.arg[g][1]) # CanonicalClass(call.arg[k][1])
              IN  \E i \in 1..Len(call.out) :
                     /\ CanonicalClass(call.out[i][1]) = CanonicalClass(call.arg[k][1])
                     /\ call.out[i][2] = call.arg[first][2]
        /\ \A i \in 1..Len(call.out) :
              \E k \in 1..Len(call.arg) :
                 CanonicalClass(call.out[i][1]) = CanonicalClass(call.arg[k][1])

\* C4 witness: candidates of one class that differ in the query and in the
\* context went in together with a candidate of another class, two came out.
C4_Witness ==
    /\ call.fn = "deduplicate_urls"
    /\ call.step = 1
    /\ Len(call.arg) = 3
    /\ Len(call.out) = 2
    /\ \E i, j \in 1..Len(call.arg) :
          /\ i < j
          /\ call.arg[i][1] # call.arg[j][1]
          /\ urlparse(call.arg[i][1]).query # urlparse(call.arg[j][1]).query
          /\ CanonicalClass(call.arg[i][1]) = CanonicalClass(call.arg[j][1])
          /\ call.arg[i][2] # call.arg[j][2]

\* C5 as stated: normalize_url applied to its own result changes nothing.
C5_NormalizeIdempotent ==
    (call.fn = "normalize_url" /\ call.step = 2) => call.again = call.out

\* the URLs of a list or set of (url, context, ...) entries
UrlsOf(entries) == {e[1] : e \in entries}

\* C6: a link whose existence check was answered with an error is not in the
\* verified discovery set, not in the prioritized list and no content request
\* goes to it; every prioritized page is a member of the verified discovery
\* set, and the number of pages found counts that set alone.
C6_DeadLinksStayOut ==
    /\ \A u \in dead :
          /\ u \notin UrlsOf(all_discovered_links)
          /\ u \notin UrlsOf(Range(priority_pages))
          /\ \A i \in 1..Len(fetched) : fetched[i].url # u
    /\ \A i \in 1..Len(priority_pages) :
          <<priority_pages[i][1], priority_pages[i][2]>> \in all_discovered_links
    /\ (pc = "returned" /\ ~SeedFailed) =>
          result.total_pages_found = Cardinality(all_discovered_links)

\* C6 witness: a crawl returned after a link failed its existence check while
\* another link passed it and was fetched; the supplementary pass ran.
C6_Witness ==
    /\ pc = "returned"
    /\ dead # {}
    /\ verified_links # <<>>
    /\ Len(verified_links) < 3
    /\ \E i \in 2..Len(fetched) : fetched[i].ok
    /\ result.total_pages_found = 1

\* C7: no two links of the verified discovery set are equivalent URLs, and
\* the total_pages_found of a completed crawl is the number of canonical
\* classes of that set, whatever the budget and the content fetches were.
C7_TotalCountsVerifiedClasses ==
    /\ \E classes \in {{CanonicalClass(e[1]) : e \in all_discovered_links}} :
          \* as many classes as links: no two links share a class
          /\ Cardinality(classes) = Cardinality(all_discovered_links)
          /\ (pc = "returned" /\ ~SeedFailed) => result.total_pages_found = Cardinality(classes)
    /\ pc \in {"prioritize", "scrape", "returned"} =>
          /\ \A i \in 1..Len(verified_links) : verified_links[i] \in all_discovered_links
          /\ Cardinality(all_discovered_links) = Len(verified_links) + additional_found

\* C7 witness: verification and the supplementary pass both added links, the
\* supplementary pass met a slug it had to leave out as equivalent, and the
\* total is larger than the number of pages the budget let through.
C7_Witness ==
    /\ pc = "returned"
    /\ result.kind = "data"
    /\ additional_found > 0
    /\ verified_links # <<>>
    /\ \E i \in 1..Len(verified_links) :
          \E k \in 1..Len(common_paths) :
             /\ common_paths[k] \in served
             /\ urls_are_equivalent(verified_links[i][1], base_url \o <<"/", common_paths[k]>>)
    /\ result.total_pages_found > Len(result.pages_scraped)
    /\ \E i \in 2..Len(fetched) : ~fetched[i].ok

\* the key types in the order the claim gives
KeyOrder == <<"about", "team", "products", "contact", "news">>

\* the first classified candidate of each key type that has one, cut off
\* after max_pages - 1
KeyPicks ==
    LET have == SelectSeq(KeyOrder, LAMBDA t : classified_pages[t] # <<>>)
        picks == [k \in 1..Len(have) |->
                     <<classified_pages[have[k]][1][1], classified_pages[have[k]][1][2], have[k]>>]
    IN  Take(picks, max_pages - 1)

\* C8: the prioritized list starts with the first classified candidate of
\* each key type that has one, in the order about, team, products, contact,
\* news, cut off at max_pages - 1; fill candidates come behind them.
C8_KeyTypesFirstInOrder ==
    pc \in {"scrape", "returned"} =>
        /\ Len(priority_pages) >= Len(KeyPicks)
        /\ SubSeq(priority_pages, 1, Len(KeyPicks)) = KeyPicks

\* C8 witness: /about, /team and /contact are verified and the prioritized
\* list is about, team, contact.
C8_Witness ==
    /\ pc = "scrape"
    /\ UrlsOf(all_discovered_links) =
          {base_url \o <<"/", "about">>, base_url \o <<"/", "team">>, base_url \o <<"/", "contact">>}
    /\ [i \in 1..Len(priority_pages) |-> priority_pages[i][3]] = <<"about", "team", "contact">>
    /\ [i \in 1..Len(priority_pages) |-> priority_pages[i][1]] =
          <<base_url \o <<"/", "about">>, base_url \o <<"/", "team">>, base_url \o <<"/", "contact">> >>

\* the labels a URL is classified under
LabelsOf(u) ==
    {t \in Range(PageTypes) : \E k \in 1..Len(classified_pages[t]) : classified_pages[t][k][1] = u}

\* C9 as stated: a page whose only label is careers is never in the
\* prioritized list and never fetched for content.
C9_CareersNeverPrioritized ==
    /\ \A i \in 1..Len(priority_pages) : LabelsOf(priority_pages[i][1]) # {"careers"}
    /\ \A i \in 1..Len(fetched) : LabelsOf(fetched[i].url) # {"careers"}

\* C9 amended: a page whose only label is careers is never a pick of the
\* key-type pass; it is in the prioritized list, and fetched, only as a fill
\* candidate behind those picks, when slots remain.
C9_CareersOnlyAsFill ==
    /\ \A i \in 1..Len(priority_pages) :
          LabelsOf(priority_pages[i][1]) = {"careers"} =>
              /\ i > Len(KeyPicks)
              /\ priority_pages[i][3] = "careers"
              /\ Len(KeyPicks) < max_pages - 1
    /\ \A i \in 1..Len(fetched) :
          LabelsOf(fetched[i].url) = {"careers"} =>
              \E j \in (Len(KeyPicks) + 1)..Len(priority_pages) :
                 priority_pages[j][1] = fetched[i].url

\* C9 witness: a careers page was fetched for content as a fill candidate
\* behind a key-type pick.
C9_Witness ==
    /\ pc = "returned"
    /\ KeyPicks # <<>>
    /\ \E i \in 2..Len(fetched) :
          /\ LabelsOf(fetched[i].url) = {"careers"}
          /\ fetched[i].ok
          /\ \E j \in 1..Len(result.pages_scraped) :
                result.pages_scraped[j] = [url |-> fetched[i].url, type |-> "careers"]

\* C10 as stated: no content request goes to a URL equivalent to a URL whose
\* content was fetched before in the crawl, the seed URL included.
C10_NoFetchOfEquivalentUrl ==
    \A i, j \in 1..Len(fetched) :
        (i < j /\ fetched[i].ok) => CanonicalClass(fetched[i].url) # CanonicalClass(fetched[j].url)

\* the content requests, seed excluded, answered with a page the text was read from
OkContentFetches == SelectSeq(Tail(fetched), LAMBDA f : f.ok)

\* is sub a subsequence of full
RECURSIVE IsSubsequence(_, _)
IsSubsequence(sub, full) ==
    IF sub = <<>> THEN TRUE
    ELSE IF full = <<>> THEN FALSE
    ELSE IF sub[1] = full[1] THEN IsSubsequence(Tail(sub), Tail(full))
    ELSE IsSubsequence(sub, Tail(full))

\* C11: the raw_text of a completed crawl starts with the main page section
\* and goes on with exactly one section per content request that was answered
\* with a page the text was read from, in the order of those requests, and
\* these sections are a subsequence of the prioritized list.
C11_RawTextInPrioritizedOrder ==
    (pc = "returned" /\ ~SeedFailed) =>
        /\ result.raw_text # <<>>
        /\ result.raw_text[1] = <<"MAIN PAGE">>
        /\ [k \in 1..(Len(result.raw_text) - 1) |-> result.raw_text[k + 1][2]] =
               [k \in 1..Len(OkContentFetches) |-> OkContentFetches[k].url]
        /\ IsSubsequence(Tail(result.raw_text),
                         [i \in 1..Len(priority_pages) |-> <<priority_pages[i][3], priority_pages[i][1]>>])

\* C11 witness: three pages were prioritized, the second content request
\* failed, and the text has the sections of the first and the third page.
C11_Witness ==
    /\ pc = "returned"
    /\ Len(priority_pages) = 3
    /\ Len(fetched) = 4
    /\ fetched[2].ok /\ ~fetched[3].ok /\ fetched[4].ok
    /\ Tail(result.raw_text) =
          << <<priority_pages[1][3], priority_pages[1][1]>>,
             <<priority_pages[3][3], priority_pages[3][1]>> >>

\* does a list hold the same natural key (name or title) twice
HasDuplicates(items) == \E i, j \in 1..Len(items) : i < j /\ items[i] = items[j]

\* C12 as stated: in the result of a crawl no two team members share a name,
\* no two products share a title and no two news items share a title.
C12_EntityKeysUnique ==
    (pc = "returned" /\ result.kind = "data") =>
        /\ ~HasDuplicates(result.team_info)
        /\ ~HasDuplicates(result.products_services)
        /\ ~HasDuplicates(result.news_data)

\* C13: classify_page assigns a label exactly when 4 for a URL pattern of the
\* label, 2 for a link-text keyword of the label and 1 for a content indicator
\* of the label in a non-empty content add up to 2 or more; a URL may get
\* several labels, and /our-team with the text Leadership gets the label team.
C13_LabelIffScoreAtLeastTwo ==
    (call.fn = "classify_page" /\ call.step = 1) =>
        /\ \A L \in Range(PageTypes) :
              L \in Range(call.out) <=>
                    4 * (IF UrlMatches(L, call.arg.url) THEN 1 ELSE 0)
                  + 2 * (IF TextMatches(L, call.arg.link_text) THEN 1 ELSE 0)
                  + 1 * (IF call.arg.content # <<>> /\ L \in Range(call.arg.content) THEN 1 ELSE 0)
                  >= 2
        /\ (call.arg.url = <<"https://", "acme.io", "/", "our-team">>
              /\ call.arg.link_text = <<"Leadership">>) => "team" \in Range(call.out)

\* C13 witness: a content indicator alone does not assign its label, and one
\* URL got two labels.
C13_Witness ==
    /\ call.fn = "classify_page"
    /\ call.step = 1
    /\ call.arg.url = <<"https://", "acme.io", "/", "who-we-are">>
    /\ call.arg.link_text = <<"x">>
    /\ call.arg.content = <<"news">>
    /\ call.out = <<"about", "team">>

\* the host of u is the host of the seed URL
SameHost(u) == urlparse(u).netloc = urlparse(url).netloc

\* C14: every URL an existence request went to, every URL of the verified
\* discovery set, every prioritized URL and every URL fetched for content has
\* the host of the seed URL.
C14_SameHostOnly ==
    /\ \A u \in unique_links \cup dead : SameHost(u)
    /\ \A e \in all_discovered_links : SameHost(e[1])
    /\ \A i \in 1..Len(verified_links) : SameHost(verified_links[i][1])
    /\ \A i \in 1..Len(priority_pages) : SameHost(priority_pages[i][1])
    /\ \A i \in 1..Len(fetched) : SameHost(fetched[i].url)

\* C14 witness: the seed page linked to another host, that candidate reached
\* the verification loop, and a page of the seed host was verified and fetched.
C14_Witness ==
    /\ pc = "returned"
    /\ \E i \in 1..Len(links_with_context) : ~SameHost(links_with_context[i][1])
    /\ verified_links # <<>>
    /\ Len(fetched) >= 2
    /\ fetched[2].ok

\* C15 as stated: no URL for which should_skip_url holds is in the verified
\* discovery set or in the prioritized list, whatever source produced it.
C15_SkippedUrlsNeverCandidates ==
    /\ \A e \in all_discovered_links : ~should_skip_url(e[1])
    /\ \A i \in 1..Len(priority_pages) : ~should_skip_url(priority_pages[i][1])

\* C16 as stated: an anchor or a paragraph of the served seed document that
\* lies inside a content container is still in the document after
\* remove_noise_elements has run on it.
C16_ContentContainerKept ==
    (Len(fetched) >= 1 /\ fetched[1].ok) =>
        /\ \A i \in 1..Len(seed_page.anchors) :
              seed_page.anchors[i].content =>
                  \E j \in 1..Len(main_soup.anchors) : main_soup.anchors[j] = seed_page.anchors[i]
        /\ \A i \in 1..Len(seed_page.paragraphs) :
              seed_page.paragraphs[i].content =>
                  \E j \in 1..Len(main_soup.paragraphs) : main_soup.paragraphs[j] = seed_page.paragraphs[i]

\* C17 as stated: the seed request of a crawl goes to the seed URL, with
\* https:// put in front of it when the URL has no scheme.
C17_SchemeDefaultsToHttps ==
    Len(fetched) >= 1 =>
        fetched[1].url = (IF MissingSchema(url) THEN <<"https://">> \o url ELSE url)

\* the name the domain of the URL gives: without a leading www., the first
\* label, '-' and '_' as blanks, every word capitalized
DomainNameOf(u) ==
    CASE u = <<"https://", "www", ".", "acme", ".", "io">> -> <<"Acme">>
      [] u = <<"https://", "my", "-", "co", "_", "labs", ".", "io", "/", "about">> -> <<"My", "Co", "Labs">>
      [] u = <<"https://", "ACME", ".", "io">> -> <<"Acme">>

\* a text of at most 60 characters with fewer than two marketing keywords
NotMarketing(text) ==
    /\ text # <<>>
    /\ TextLen(text) <= 60
    /\ Cardinality(UNION {KeywordsOf(text[i]) : i \in 1..Len(text)}) < 2

\* C18: the name extract_company_name returns is, unless it is the name the
\* domain gives, never longer than 60 characters and never holds two or
\* more marketing keywords; when neither a part of the title, nor the whole
\* title, nor og:site_name passes that test, as for the title "Best AI
\* Platform For Your Business", the name is the one the domain gives.
C18_MarketingTitlesRejected ==
    (call.fn = "extract_company_name" /\ call.step = 1) =>
        LET soup  == call.arg.soup
            texts == (IF soup.title.present
                      THEN {soup.title.text} \cup Range(TitleParts(soup.title.text)) ELSE {})
                     \cup (IF soup.og_site_name.present THEN {soup.og_site_name.content} ELSE {})
        IN  /\ call.out # DomainNameOf(call.arg.url) => NotMarketing(call.out)
            /\ (\A t \in texts : ~NotMarketing(t)) => call.out = DomainNameOf(call.arg.url)
            /\ (soup.title.present /\ soup.title.text = ExampleTitle /\ ~soup.og_site_name.present)
                  => call.out = DomainNameOf(call.arg.url)

\* C18 witness: the marketing example on a page without og:site_name got
\* the name of the domain my-co_labs.io.
C18_Witness ==
    /\ call.fn = "extract_company_name"
    /\ call.step = 1
    /\ call.arg.soup.title.present
    /\ call.arg.soup.title.text = ExampleTitle
    /\ ~call.arg.soup.og_site_name.present
    /\ call.out = <<"My", "Co", "Labs">>

\* C19 as stated: no URL occurs twice in the prioritized list.
C19_PrioritizedUrlsDistinct ==
    \A i, j \in 1..Len(priority_pages) :
        i # j => priority_pages[i][1] # priority_pages[j][1]

\* the description the fallback chain yields for a document: meta
\* description, Open-Graph description, first paragraph of at least 50
\* characters cut to 300
FallbackDescription(soup) ==
    LET meta_desc == SelectSeq(soup.meta, LAMBDA m : m.name = "description" /\ m.content # "")
        og_desc   == SelectSeq(soup.meta, LAMBDA m : m.name = "og:description" /\ m.content # "")
    IN  IF meta_desc # <<>> THEN meta_desc[1].content
        ELSE IF og_desc # <<>> THEN og_desc[1].content
        ELSE IF soup.paragraphs # <<>> /\ ParagraphLen(soup.paragraphs[1].text) >= 50
             THEN Truncate300(soup.paragraphs[1].text)
        ELSE ""

\* C20 as stated: the description a full crawl returns is the one the
\* fallback chain yields for the seed page as served.
C20_DescriptionFallbackChain ==
    (pc = "returned" /\ Len(fetched) >= 1 /\ fetched[1].ok) =>
        result.description = FallbackDescription(seed_page)

\* the URL an anchor or a data-href element of the seed page points to
TargetOf(href) == normalize_url(Strip(href), base_url)

\* C21 as stated: the URL of an anchor the anchor loop discards for its
\* text is among the candidates when a later anchor with an informative
\* text or a data-href element points to the same URL.
C21_GenericAnchorUrlStillKept ==
    (pc \in {"verify", "supplement", "prioritize", "scrape", "returned"}
        /\ Len(fetched) >= 1 /\ fetched[1].ok) =>
        \A i \in 1..Len(main_soup.anchors) :
            LET u == TargetOf(main_soup.anchors[i].href)
            IN  (/\ main_soup.anchors[i].text \in GenericTexts
                 /\ u # <<>>
                 /\ ~should_skip_url(u)
                 /\ \/ \E j \in (i + 1)..Len(main_soup.anchors) :
                          /\ main_soup.anchors[j].text \notin GenericTexts
                          /\ TargetOf(main_soup.anchors[j].href) = u
                    \/ \E j \in 1..Len(main_soup.data) : TargetOf(main_soup.data[j].href) = u)
                => \E k \in 1..Len(links_with_context) :
                       urls_are_equivalent(links_with_context[k][1], u)

C27_AtMostThreeAttempts ==
    (call.fn = "session.request" /\ call.step = 1 /\ call.arg.method = "GET") =>
        /\ call.out.attempts <= 3
        /\ \A k \in 1..(call.out.attempts - 1) :
              /\ ~call.arg.answers[k].raised
              /\ call.arg.answers[k].status >= 500 \/ call.arg.answers[k].status = 429

\* C23 as stated: should_skip_url holds exactly for a URL that ends in a
\* listed extension, has a listed path segment or whose host is a listed
\* platform.
C23_SkipIffExtensionPathOrPlatform ==
    (call.fn = "should_skip_url" /\ call.step = 1) =>
        LET parsed == urlparse(call.arg)
        IN  call.out <=>
              \/ call.arg[Len(call.arg)] = "file.pdf"
              \/ \E i \in 1..(Len(parsed.path) - 1) :
                     parsed.path[i] = "/" /\ parsed.path[i + 1] = "login"
              \/ parsed.netloc = <<"github.com">>

\* C24 as stated: normalize_url of a non-empty reference is an absolute URL
\* without fragment whose path, unless it is the root path, does not end
\* in '/'.
C24_NormalizedPathHasNoTrailingSlash ==
    (call.fn = "normalize_url" /\ call.step >= 1 /\ call.arg # <<>>) =>
        LET parsed == urlparse(call.out)
        IN  /\ parsed.scheme \in {"http://", "https://"}
            /\ parsed.netloc # <<>>
            /\ "#" \notin Range(call.out)
            /\ (parsed.path # <<>> /\ parsed.path # <<"/">>)
                  => parsed.path[Len(parsed.path)] # "/"

\* the slugs whose URL the supplementary pass may add: the server answers
\* the probe below 400 and no link discovered before is equivalent
Addable(slug, server, links) ==
    LET test_url == base_url \o <<"/", slug>>
    IN  /\ slug \in server
        /\ test_url \notin dead
        /\ ~\E e \in links : urls_are_equivalent(test_url, e[1])

PathSegments(u) ==
    LET path == urlparse(u).path
    IN  Cardinality({i \in 1..Len(path) : path[i] = "/"})

\* x stands in front of y: fewer path segments, or as many and the
\* smaller URL
FillBefore(x, y) ==
    \/ PathSegments(x) < PathSegments(y)
    \/ PathSegments(x) = PathSegments(y) /\ StrLess(x, y)

\* the prioritized pages behind the picks of the key-type pass
FillPicks == SubSeq(priority_pages, Len(KeyPicks) + 1, Len(priority_pages))

\* the classified candidates the key-type pass did not select
Unselected ==
    UNION { { <<classified_pages[t][k][1], classified_pages[t][k][2], t>> :
                 k \in 1..Len(classified_pages[t]) } : t \in Range(PageTypes) }
    \ { c \in UNION { { <<classified_pages[t][k][1], classified_pages[t][k][2], t>> :
                            k \in 1..Len(classified_pages[t]) } : t \in Range(PageTypes) } :
           \E i \in 1..Len(KeyPicks) : KeyPicks[i][1] = c[1] }

\* C26: the prioritized pages behind the key-type picks are classified
\* candidates that pass did not select, in ascending order of the number
\* of path segments and then of the URL, no more than the slots left, and
\* a candidate left out has no smaller key than any of them.
C26_FillSortedBySegmentsThenUrl ==
    pc \in {"scrape", "returned"} =>
        /\ Len(FillPicks) <= max_pages - 1 - Len(KeyPicks) \/ FillPicks = <<>>
        /\ \A i \in 1..Len(FillPicks) : FillPicks[i] \in Unselected
        /\ \A i, j \in 1..Len(FillPicks) :
              i < j => ~FillBefore(FillPicks[j][1], FillPicks[i][1])
        /\ \A c \in Unselected :
              \/ c \in Range(FillPicks)
              \/ /\ Len(FillPicks) = max_pages - 1 - Len(KeyPicks) \/ max_pages - 1 <= Len(KeyPicks)
                 /\ \A i \in 1..Len(FillPicks) : ~FillBefore(c[1], FillPicks[i][1])

\* C26 witness: the one slot left went to a URL with one path segment
\* although a candidate with two segments has the smaller URL.
C26_Witness ==
    /\ pc = "scrape"
    /\ KeyPicks # <<>>
    /\ Len(FillPicks) = 1
    /\ \E c \in Unselected :
          /\ c \notin Range(FillPicks)
          /\ StrLess(c[1], FillPicks[1][1])
          /\ PathSegments(c[1]) > PathSegments(FillPicks[1][1])

IsPrefix(short, long) == Len(short) <= Len(long) /\ SubSeq(long, 1, Len(short)) = short

\* C28: a step of the content loop whose page was fetched and read adds
\* the text section of the page and its pages_scraped entry, keeps every
\* entity the earlier pages gave, touches no entity field but the one of
\* the page's type, and goes on with the next prioritized page, whatever
\* the entity extractor did, raising included.
C28_ExtractorFailureKeepsPage ==
    [][ (pc = "scrape" /\ Len(fetched') = Len(fetched) + 1 /\ fetched'[Len(fetched')].ok) =>
          LET page == priority_pages[scrape_i]
          IN  /\ all_text' = Append(all_text, <<page[3], page[1]>>)
              /\ pages_scraped' = Append(pages_scraped, [url |-> page[1], type |-> page[3]])
              /\ pc' = "scrape"
              /\ scrape_i' = scrape_i + 1
              /\ priority_pages' = priority_pages
              /\ IsPrefix(scraped_data_parts.contact_info, scraped_data_parts'.contact_info)
              /\ IsPrefix(scraped_data_parts.team_info, scraped_data_parts'.team_info)
              /\ IsPrefix(scraped_data_parts.products_services, scraped_data_parts'.products_services)
              /\ IsPrefix(scraped_data_parts.news_data, scraped_data_parts'.news_data)
              /\ scraped_data_parts.about_page # <<>> =>
                    scraped_data_parts'.about_page = scraped_data_parts.about_page
              /\ page[3] # "contact" => scraped_data_parts'.contact_info = scraped_data_parts.contact_info
              /\ page[3] # "team" => scraped_data_parts'.team_info = scraped_data_parts.team_info
              /\ page[3] # "products" =>
                    scraped_data_parts'.products_services = scraped_data_parts.products_services
              /\ page[3] # "news" => scraped_data_parts'.news_data = scraped_data_parts.news_data
      ]_vars

\* C28 witness: the crawl returned with the team members an earlier page
\* gave, after a contact page was fetched, got its text section and its
\* pages_scraped entry and gave no contact entity, as when
\* extract_contact_info raises.
C28_Witness ==
    /\ pc = "returned"
    /\ result.team_info # <<>>
    /\ result.contact_info = <<>>
    /\ \E i, j \in 1..Len(result.pages_scraped) :
          /\ i < j
          /\ result.pages_scraped[i].type = "team"
          /\ result.pages_scraped[j].type = "contact"
          /\ result.raw_text[j] = <<"contact", result.pages_scraped[j].url>>

\* the candidates among the first n deduplicated links: same host as the
\* seed and not the seed itself
CandidateUrls(n) ==
    {links_with_context[i][1] : i \in {j \in 1..n : /\ j <= Len(links_with_context)
                                                   /\ is_same_domain(links_with_context[j][1], url)
                                                   /\ links_with_context[j][1] # url}}

\* C29: the links kept by verification do not depend on the order of the
\* verification: at every point of the loop the kept URLs are exactly the
\* candidates looked at so far whose own existence check was answered below
\* 400, whatever was verified before them, each is kept once, and the
\* total_pages_found of the result is the number of these plus the slugs the
\* supplementary pass added
C29_KeptSetIndependentOfOrder ==
    (pc \in {"verify", "supplement", "prioritize", "scrape", "returned"} /\ ~SeedFailed) =>
        /\ UrlsOf(Range(verified_links)) = CandidateUrls(link_i - 1) \ dead
        /\ Cardinality(UrlsOf(Range(verified_links))) = Len(verified_links)
        /\ pc # "verify" => link_i = Len(links_with_context) + 1
        /\ pc = "returned" =>
              result.total_pages_found
                  = Cardinality(CandidateUrls(Len(links_with_context)) \ dead) + additional_found

\* a completed crawl whose first candidate failed its existence check and
\* whose second candidate was kept
C29_Witness ==
    /\ pc = "returned"
    /\ ~SeedFailed
    /\ Len(links_with_context) >= 2
    /\ links_with_context[1][1] \in CandidateUrls(1) \cap dead
    /\ links_with_context[2][1] \in CandidateUrls(2) \ dead
    /\ UrlsOf(Range(verified_links)) = {links_with_context[2][1]}
    /\ result.total_pages_found = 1 + additional_found

\* scrape_website is over: it returned a ScrapedData or raised
Done == pc \in {"returned", "raised"}

\* the content GETs issued so far: every entry of fetched but the seed's
ContentFetches == IF fetched = <<>> THEN 0 ELSE Len(fetched) - 1

\* the requests issued so far stay within the bounds: one seed fetch, one
\* existence check (HEAD, and GET when HEAD raised) for each deduplicated
\* candidate at most, one pass over the supplementary slugs, which adds one
\* link per slug at most, and max_pages - 1 content fetches at most
RequestsBounded ==
    /\ (pc = "start") <=> (fetched = <<>>)
    /\ link_i <= Len(links_with_context) + 1
    /\ unique_links \subseteq CandidateUrls(link_i - 1)
    /\ Cardinality(unique_links) <= Len(links_with_context)
    /\ additional_found <= Len(common_paths)
    /\ (additional_found > 0 \/ served # {}) => pc \in {"prioritize", "scrape", "returned"}
    /\ ContentFetches <= max_pages - 1
    /\ ContentFetches <= scrape_i - 1
    /\ scrape_i <= Len(priority_pages) + 1
    /\ Done => result # NoResult

\* how far a crawl has come: the steps of scrape_website in their order,
\* within Step 4 and Step 6 the index of the loop
Position(at, i, j) ==
    LET rank == CASE at = "start"      -> 0
                  [] at = "discover"   -> 1
                  [] at = "verify"     -> 2
                  [] at = "supplement" -> 3
                  [] at = "prioritize" -> 4
                  [] at = "scrape"     -> 5
                  [] OTHER             -> 6
    IN  (rank * 100 + i) * 100 + j

\* C30: every crawl terminates: when every request returns or raises, the
\* crawl reaches the point where it has returned a result or raised, and up
\* to there it issues one seed fetch, existence checks for the deduplicated
\* candidates only, one supplementary pass and at most max_pages - 1
\* content fetches; every step takes the crawl forward, none goes back to an
\* earlier statement or repeats an iteration
C30_CrawlTerminatesWithinBounds ==
    /\ []RequestsBounded
    /\ [][Position(pc', link_i', scrape_i') > Position(pc, link_i, scrape_i)]_vars
    /\ <>Done

\* a crawl that is over after requests of every kind: the seed fetch, an
\* existence check, supplementary probes that found a page, and content
\* fetches up to the budget
C30_Witness ==
    /\ pc = "returned"
    /\ ~SeedFailed
    /\ unique_links # {}
    /\ additional_found > 0
    /\ max_pages >= 2
    /\ ContentFetches = max_pages - 1
    /\ Cardinality(all_discovered_links) > max_pages - 1

====
